---- MODULE Spec2Model ----
(***************************************************************************)
(* Simulated BB84 key agreement, hybrid key mixing, the session encryption *)
(* engine (ChaCha20-Poly1305 envelopes) and the qkd_sessions table of the  *)
(* redb client, as implemented in src/rust/src/crypto/qkd.rs and           *)
(* src/rust/src/db/redb_client.rs; the cryptex dictionary and its table    *)
(* (src/rust/src/db/cryptex.rs); and the two callers that encrypt and      *)
(* store, the qkd command of src/rust/src/main.rs and the qkd_encrypt      *)
(* handler of src/rust/src/mcp/handlers.rs.  Calls that run concurrently   *)
(* are split into steps, one thread or caller per element of `calls`.      *)
(*                                                                         *)
(* Bytes are the integers 0..255.  The external primitives (digest, AEAD   *)
(* cipher, random source) are modelled by their contracts: a digest is a   *)
(* deterministic function to a fixed width, the AEAD cipher is a stream    *)
(* cipher with a 16-byte tag over key, nonce and ciphertext, and the       *)
(* random source is a choice among a few outcome vectors (a "seed").       *)
(* 96-bit nonces and 122-bit v4 uuids are drawn fresh (a cryptographic     *)
(* random source does not repeat them).                                    *)
(***************************************************************************)
EXTENDS Integers, Sequences, FiniteSets, TLC

VARIABLES
    DB,        \* redb_client::DB : is the process-wide handle Some(..)?
    table,     \* QKD_SESSIONS_TABLE of the database file: key string -> JSON text
    inst,      \* the QKDEncryption instances alive in memory
    encs,      \* the encrypt calls made so far: instance, plaintext, envelope
    saved,     \* the instances whose save_session has returned Ok
    nextUuid,  \* how many v4 uuids the random source has handed out
    now,       \* the wall clock Utc::now() reads, in hours
    last,      \* the last session call that returned a value, and the value
    cryptex,   \* CRYPTEX_TABLE of the database file: key string -> JSON text
    calls      \* the calls in progress, one per thread or caller: where each stands

vars == <<DB, table, inst, encs, saved, nextUuid, now, last, cryptex, calls>>

----------------------------------------------------------------------------
(* Bounds of the model *)

\* in-memory session instances (created by new_session or load_session)
MaxInst == 2
\* encrypt calls
MaxEnc == 2
\* hours the clock may advance
MaxTime == 1

\* requested key sizes: none, below the digest width, the width, above it
KeySizes == {0, 16, 32, 33}
\* outcome vectors of the random source during one key generation
Seeds == {1, 2}
\* the sizes and seeds new_session is called with in the session life cycle
SessionKeySizes == {16, 32, 33}
SessionSeeds == {1}
\* plaintexts handed to encrypt, and the one used in the session life cycle
Plaintexts == {<< >>, <<72, 105>>}
SessionPlaintexts == {<<72, 105>>}
\* the 12-byte values the random source can hand out as nonces
NonceFills == 1..MaxEnc
\* deltas added to a byte when an envelope is tampered with
Deltas == {1, 128}

----------------------------------------------------------------------------
(* Program constants *)

\* Nonce width of ChaCha20Poly1305: `[u8; 12]`, split_at(12)
NonceLen == 12
\* Poly1305 tag width appended by the AEAD cipher
TagLen == 16
\* key width ChaCha20Poly1305::new_from_slice accepts; key_material[..32]
KeyLen == 32
\* generate_bb84_key simulates key_size * 16 qubits
Oversample == 16
\* chrono::Duration::hours(24)
ExpiryHours == 24

Min(a, b) == IF a < b THEN a ELSE b

\* anyhow::Result
Ok(v) == [ok |-> TRUE, err |-> "", value |-> v]
Err(e) == [ok |-> FALSE, err |-> e, value |-> << >>]

----------------------------------------------------------------------------
(* u8 arithmetic *)

RECURSIVE XorBits(_, _, _)
XorBits(a, b, n) ==
    IF n = 0 THEN 0
    ELSE (((a % 2) + (b % 2)) % 2) + 2 * XorBits(a \div 2, b \div 2, n - 1)

\* `q ^ c` on u8
Xor(a, b) == XorBits(a, b, 8)

\* sum of the bytes of s, each weighted by an odd number that depends on its
\* position (from + index): a change of any single byte changes the sum
RECURSIVE Fold(_, _, _)
Fold(s, i, from) ==
    IF i > Len(s) THEN 0
    ELSE (s[i] * (2 * (from + i) + 1) + Fold(s, i + 1, from)) % 256

----------------------------------------------------------------------------
(* crypto/hashing.rs : MultiHasher *)

output_size(algorithm) ==
    CASE algorithm = "SHA256" -> 32
      [] algorithm = "BLAKE3" -> 32

\* what distinguishes one digest algorithm from another in the model
AlgTag(algorithm) ==
    CASE algorithm = "SHA256" -> 101
      [] algorithm = "BLAKE3" -> 59

\* MultiHasher::hash(algorithm, data): always Ok, a digest of output_size bytes
\* that is a function of the algorithm and of every byte of data
MultiHasher_hash(algorithm, data) ==
    LET f == Fold(data, 1, 0)
    IN  Ok([j \in 1..output_size(algorithm) |->
              (AlgTag(algorithm) + f * (2 * j + 1) + Len(data) * j + j * j) % 256])

----------------------------------------------------------------------------
(* chacha20poly1305 : the AEAD cipher behind encrypt_with_key / decrypt_with_key *)

\* ChaCha20Poly1305::new_from_slice(key): Err(InvalidLength) unless 32 bytes
new_from_slice(key) ==
    IF Len(key) = KeyLen THEN Ok(key) ELSE Err("Key error")

\* the i-th byte of the key stream; kf and nf are the sums of key and nonce
KeyStream(kf, nf, i) == (kf * 5 + nf * 3 + 13 * i + 7) % 256

\* a tag that does not depend on the key
Tag_Unkeyed(kf, nf, ct) ==
    LET m == (nf + Fold(ct, 1, NonceLen) + Len(ct)) % 256
    IN  [j \in 1..TagLen |-> (m + j * j) % 256]

\* the Poly1305 tag over nonce and ciphertext under the key
Tag(kf, nf, ct) ==
    LET m == (nf + Fold(ct, 1, NonceLen) + Len(ct)) % 256
    IN  [j \in 1..TagLen |-> (kf * (2 * j + 1) + m + j * j) % 256]

\* cipher.encrypt(nonce, plaintext): ciphertext followed by the tag
cipher_encrypt(key, nonce, plaintext) ==
    LET kf == Fold(key, 1, 0)
        nf == Fold(nonce, 1, 0)
        ct == [i \in 1..Len(plaintext) |-> Xor(plaintext[i], KeyStream(kf, nf, i))]
    IN  Ok(ct \o Tag(kf, nf, ct))

\* cipher.decrypt(nonce, data): Err(aead::Error) when data is shorter than a
\* tag or the tag does not verify, the plaintext otherwise
cipher_decrypt(key, nonce, data) ==
    IF Len(data) < TagLen THEN Err("aead::Error")
    ELSE LET kf == Fold(key, 1, 0)
             nf == Fold(nonce, 1, 0)
             n  == Len(data) - TagLen
             ct == SubSeq(data, 1, n)
             tg == SubSeq(data, n + 1, Len(data))
         IN  IF tg # Tag(kf, nf, ct) THEN Err("aead::Error")
             ELSE Ok([i \in 1..n |-> Xor(ct[i], KeyStream(kf, nf, i))])

----------------------------------------------------------------------------
(* rand::thread_rng : the outcomes of the draws of one key generation, one   *)
(* vector per seed.  Seed 1 makes every basis match, seed 2 a quarter of   *)
(* them, any other seed none.                                              *)

\* alice_prepare's i-th  rng.gen_bool(0.5)  for the basis
AliceBasisDraw(seed, i) == i % 2 = 0
\* alice_prepare's i-th  rng.gen_bool(0.5)  for the value
AliceValueDraw(seed, i) == (i + seed) % 3 # 0
\* bob_measure's i-th  rng.gen_bool(0.5)  for the basis
BobBasisDraw(seed, i) ==
    CASE seed = 1 -> i % 2 = 0
      [] seed = 2 -> i % 8 \in {0, 1, 3, 5}
      [] OTHER    -> i % 2 = 1
\* bob_measure's  rng.gen_bool(0.5)  for the value at a mismatched basis
BobValueDraw(seed, i) == (i + seed) % 2 = 0
\* generate_hybrid_key's i-th  rng.gen()  byte of classical entropy
EntropyDraw(seed, i) == (seed * 37 + i * 11 + 5) % 256

----------------------------------------------------------------------------
(* crypto/qkd.rs : BB84Simulator *)

Basis(b) == IF b THEN "Rectilinear" ELSE "Diagonal"

\* alice_prepare: bits_count qubits and, beside them, their bases
alice_prepare(bits_count, seed) ==
    LET bit(i) == [basis |-> Basis(AliceBasisDraw(seed, i)),
                   value |-> AliceValueDraw(seed, i)]
    IN  [bits  |-> [i \in 1..bits_count |-> bit(i)],
         bases |-> [i \in 1..bits_count |-> bit(i).basis]]

\* bob_measure that draws every value, whatever the bases
bob_measure_AlwaysRandom(alice_bits, seed) ==
    LET bob_basis(i) == Basis(BobBasisDraw(seed, i))
    IN  [values |-> [i \in 1..Len(alice_bits) |-> BobValueDraw(seed, i)],
         bases  |-> [i \in 1..Len(alice_bits) |-> bob_basis(i)]]

\* bob_measure: one measurement per qubit, in a basis of Bob's choice
bob_measure(alice_bits, seed) ==
    LET bob_basis(i) == Basis(BobBasisDraw(seed, i))
        measured_value(i) ==
            IF alice_bits[i].basis = bob_basis(i)
            THEN alice_bits[i].value
            ELSE BobValueDraw(seed, i)
    IN  [values |-> [i \in 1..Len(alice_bits) |-> measured_value(i)],
         bases  |-> [i \in 1..Len(alice_bits) |-> bob_basis(i)]]

\* sift_key that keeps a place, holding false, for a dropped position
sift_key_MarksDropped(alice_bases, bob_bases, bob_values) ==
    LET n == Min(Len(alice_bases), Min(Len(bob_bases), Len(bob_values)))
    IN  [i \in 1..n |-> alice_bases[i] = bob_bases[i] /\ bob_values[i]]

\* sift_key: zip the three sequences (to the shortest), keep the value where
\* the bases agree
sift_key(alice_bases, bob_bases, bob_values) ==
    LET n      == Min(Len(alice_bases), Min(Len(bob_bases), Len(bob_values)))
        zipped == [i \in 1..n |-> <<alice_bases[i], bob_bases[i], bob_values[i]>>]
        kept   == SelectSeq(zipped, LAMBDA t : t[1] = t[2])
    IN  [i \in 1..Len(kept) |-> kept[i][3]]

\* a shift that fills the byte from its low end
ShiftIn_LsbFirst(current_byte, bit) == (current_byte \div 2) + (IF bit THEN 128 ELSE 0)

\* `current_byte = (current_byte << 1) | (*bit as u8)` on u8
ShiftIn(current_byte, bit) == ((current_byte * 2) % 256) + (IF bit THEN 1 ELSE 0)

\* the `for bit in sifted_key.iter().take(target_size * 8)` loop of finalize_key,
\* eight iterations at a time: i is the next bit and bit_count is 0 there.
\* With eight more bits to take, current_byte collects them and is pushed;
\* with fewer, they are shifted into current_byte, bit_count never reaches 8
\* and the loop ends without a push.
RECURSIVE PackBits(_, _, _, _)
PackBits(sifted_key, i, limit, key_bytes) ==
    IF i + 7 > Min(Len(sifted_key), limit) THEN key_bytes
    ELSE LET b(k) == sifted_key[i + k]
             current_byte ==
                 ShiftIn(ShiftIn(ShiftIn(ShiftIn(ShiftIn(ShiftIn(ShiftIn(ShiftIn(
                     0, b(0)), b(1)), b(2)), b(3)), b(4)), b(5)), b(6)), b(7))
         IN  PackBits(sifted_key, i + 8, limit, Append(key_bytes, current_byte))

\* finalize_key without the padding loop
finalize_key_NoPad(sifted_key, target_size) ==
    LET packed == PackBits(sifted_key, 1, target_size * 8, << >>)
    IN  SubSeq(packed, 1, Min(Len(packed), target_size))

\* finalize_key: pack, pad with zero bytes, truncate
finalize_key(sifted_key, target_size) ==
    LET packed == PackBits(sifted_key, 1, target_size * 8, << >>)
        padded == packed \o [i \in 1..(target_size - Len(packed)) |-> 0]
    IN  SubSeq(padded, 1, Min(Len(padded), target_size))

----------------------------------------------------------------------------
(* crypto/qkd.rs : QKDKeyGenerator *)

\* generate_bb84_key that simulates eight qubits for a key byte
generate_bb84_key_FewQubits(key_size, seed) ==
    LET simulator_bits == key_size * 8
        alice == alice_prepare(simulator_bits, seed)
        bob   == bob_measure(alice.bits, seed)
        sifted_key == sift_key(alice.bases, bob.bases, bob.values)
    IN  Ok(finalize_key(sifted_key, key_size))

generate_bb84_key(key_size, seed) ==
    LET simulator_bits == key_size * Oversample
        alice == alice_prepare(simulator_bits, seed)
        bob   == bob_measure(alice.bits, seed)
        sifted_key == sift_key(alice.bases, bob.bases, bob.values)
    IN  Ok(finalize_key(sifted_key, key_size))

\* generate_hybrid_key that digests the simulated key alone
generate_hybrid_key_NoEntropy(key_size, seed) ==
    LET qkd_key == generate_bb84_key(key_size, seed).value
        result == MultiHasher_hash("BLAKE3", qkd_key)
    IN  Ok(SubSeq(result.value, 1, Min(key_size, 32)))

generate_hybrid_key(key_size, seed) ==
    LET qkd_key == generate_bb84_key(key_size, seed).value
        classical_entropy == [i \in 1..key_size |-> EntropyDraw(seed, i)]
        hybrid_key == [i \in 1..Min(Len(qkd_key), Len(classical_entropy)) |->
                          Xor(qkd_key[i], classical_entropy[i])]
        result == MultiHasher_hash("BLAKE3", hybrid_key)
    IN  Ok(SubSeq(result.value, 1, Min(key_size, 32)))

\* generate_hybrid_key over the sizes and seeds the model draws from
HybridKeys == [n \in KeySizes |-> [s \in Seeds |-> generate_hybrid_key(n, s)]]

----------------------------------------------------------------------------
(* crypto/qkd.rs : QKDEncryption, the cipher side *)

\* new_session: key material from the hybrid generator, a fresh v4 uuid
new_session(key_size, seed, uuid) ==
    LET key_material == HybridKeys[key_size][seed]
    IN  IF ~key_material.ok THEN key_material
        ELSE Ok([session_id |-> uuid, key_material |-> key_material.value])

\* encrypt_with_key that puts the nonce after the cipher output
encrypt_with_key_NonceLast(key, plaintext, nonce_bytes) ==
    LET cipher == new_from_slice(key)
    IN  IF ~cipher.ok THEN Err("Key error")
        ELSE LET ciphertext == cipher_encrypt(cipher.value, nonce_bytes, plaintext)
             IN  IF ~ciphertext.ok THEN Err("Encryption failed")
                 ELSE Ok(ciphertext.value \o nonce_bytes)

\* encrypt_with_key with a constant nonce in place of the random one
encrypt_with_key_FixedNonce(key, plaintext, nonce_bytes) ==
    LET cipher == new_from_slice(key)
        fixed  == [i \in 1..NonceLen |-> 0]
    IN  IF ~cipher.ok THEN Err("Key error")
        ELSE LET ciphertext == cipher_encrypt(cipher.value, fixed, plaintext)
             IN  IF ~ciphertext.ok THEN Err("Encryption failed")
                 ELSE Ok(fixed \o ciphertext.value)

\* encrypt_with_key; nonce_bytes is what `rng.gen()` returned
encrypt_with_key(key, plaintext, nonce_bytes) ==
    LET cipher == new_from_slice(key)
    IN  IF ~cipher.ok THEN Err("Key error")
        ELSE LET ciphertext == cipher_encrypt(cipher.value, nonce_bytes, plaintext)
             IN  IF ~ciphertext.ok THEN Err("Encryption failed")
                 ELSE Ok(nonce_bytes \o ciphertext.value)

\* encrypt that gives the cipher short key material as it is
encrypt_NoHash(self, plaintext, nonce_bytes) ==
    encrypt_with_key(SubSeq(self.key_material, 1, Min(KeyLen, Len(self.key_material))),
                     plaintext, nonce_bytes)

encrypt(self, plaintext, nonce_bytes) ==
    IF Len(self.key_material) >= KeyLen
    THEN encrypt_with_key(SubSeq(self.key_material, 1, KeyLen), plaintext, nonce_bytes)
    ELSE LET hash == MultiHasher_hash("SHA256", self.key_material)
         IN  IF ~hash.ok THEN hash
             ELSE encrypt_with_key(hash.value, plaintext, nonce_bytes)

\* a result together with the steps that were run to obtain it
Traced(result, steps) ==
    [ok |-> result.ok, err |-> result.err, value |-> result.value, steps |-> steps]

\* decrypt_with_key that turns a cipher error into an empty plaintext
decrypt_with_key_OrEmpty(key, ciphertext, nonce) ==
    LET cipher == new_from_slice(key)
    IN  IF ~cipher.ok THEN Traced(Err("Key error"), <<"new_from_slice">>)
        ELSE LET plaintext == cipher_decrypt(cipher.value, nonce, ciphertext)
                 steps == <<"new_from_slice", "cipher_decrypt">>
             IN  IF ~plaintext.ok THEN Traced(Ok(<< >>), steps)
                 ELSE Traced(Ok(plaintext.value), steps)

decrypt_with_key(key, ciphertext, nonce) ==
    LET cipher == new_from_slice(key)
    IN  IF ~cipher.ok THEN Traced(Err("Key error"), <<"new_from_slice">>)
        ELSE LET plaintext == cipher_decrypt(cipher.value, nonce, ciphertext)
                 steps == <<"new_from_slice", "cipher_decrypt">>
             IN  IF ~plaintext.ok THEN Traced(Err("Decryption failed"), steps)
                 ELSE Traced(Ok(plaintext.value), steps)

\* decrypt that hashes short key material with another digest than encrypt
decrypt_OtherDigest(self, ciphertext) ==
    IF Len(ciphertext) < NonceLen
    THEN Traced(Err("Ciphertext too short"), << >>)
    ELSE LET nonce_bytes    == SubSeq(ciphertext, 1, NonceLen)
             encrypted_data == SubSeq(ciphertext, NonceLen + 1, Len(ciphertext))
         IN  IF Len(self.key_material) >= KeyLen
             THEN LET r == decrypt_with_key(SubSeq(self.key_material, 1, KeyLen),
                                            encrypted_data, nonce_bytes)
                  IN  Traced(r, <<"derive_key">> \o r.steps)
             ELSE LET hash == MultiHasher_hash("BLAKE3", self.key_material)
                  IN  IF ~hash.ok THEN Traced(hash, <<"derive_key">>)
                      ELSE LET r == decrypt_with_key(hash.value, encrypted_data,
                                                     nonce_bytes)
                           IN  Traced(r, <<"derive_key">> \o r.steps)

\* decrypt that derives the key before it looks at the length
decrypt_LateCheck(self, ciphertext) ==
    IF Len(ciphertext) < NonceLen
    THEN Traced(Err("Ciphertext too short"), <<"derive_key">>)
    ELSE LET nonce_bytes    == SubSeq(ciphertext, 1, NonceLen)
             encrypted_data == SubSeq(ciphertext, NonceLen + 1, Len(ciphertext))
         IN  IF Len(self.key_material) >= KeyLen
             THEN LET r == decrypt_with_key(SubSeq(self.key_material, 1, KeyLen),
                                            encrypted_data, nonce_bytes)
                  IN  Traced(r, <<"derive_key">> \o r.steps)
             ELSE LET hash == MultiHasher_hash("SHA256", self.key_material)
                  IN  IF ~hash.ok THEN Traced(hash, <<"derive_key">>)
                      ELSE LET r == decrypt_with_key(hash.value, encrypted_data,
                                                     nonce_bytes)
                           IN  Traced(r, <<"derive_key">> \o r.steps)

\* decrypt that asks for room for the tag as well
decrypt_MinEnvelope(self, ciphertext) ==
    IF Len(ciphertext) < NonceLen + TagLen
    THEN Traced(Err("Ciphertext too short"), << >>)
    ELSE LET nonce_bytes    == SubSeq(ciphertext, 1, NonceLen)
             encrypted_data == SubSeq(ciphertext, NonceLen + 1, Len(ciphertext))
         IN  IF Len(self.key_material) >= KeyLen
             THEN LET r == decrypt_with_key(SubSeq(self.key_material, 1, KeyLen),
                                            encrypted_data, nonce_bytes)
                  IN  Traced(r, <<"derive_key">> \o r.steps)
             ELSE LET hash == MultiHasher_hash("SHA256", self.key_material)
                  IN  IF ~hash.ok THEN Traced(hash, <<"derive_key">>)
                      ELSE LET r == decrypt_with_key(hash.value, encrypted_data,
                                                     nonce_bytes)
                           IN  Traced(r, <<"derive_key">> \o r.steps)

decrypt(self, ciphertext) ==
    IF Len(ciphertext) < NonceLen
    THEN Traced(Err("Ciphertext too short"), << >>)
    ELSE LET nonce_bytes    == SubSeq(ciphertext, 1, NonceLen)
             encrypted_data == SubSeq(ciphertext, NonceLen + 1, Len(ciphertext))
         IN  IF Len(self.key_material) >= KeyLen
             THEN LET r == decrypt_with_key(SubSeq(self.key_material, 1, KeyLen),
                                            encrypted_data, nonce_bytes)
                  IN  Traced(r, <<"derive_key">> \o r.steps)
             ELSE LET hash == MultiHasher_hash("SHA256", self.key_material)
                  IN  IF ~hash.ok THEN Traced(hash, <<"derive_key">>)
                      ELSE LET r == decrypt_with_key(hash.value, encrypted_data,
                                                     nonce_bytes)
                           IN  Traced(r, <<"derive_key">> \o r.steps)

----------------------------------------------------------------------------
(* db/redb_client.rs : the process-wide handle and the qkd_sessions table *)

\* Option
Some(x) == <<x>>
None == << >>

\* Uuid::to_string: the hyphenated text of the uuid, and its parse
Uuid_to_string(id) == <<"uuid", id>>
Uuid_parse(text) == text[2]

\* serde_json::to_string(&QKDSession): the members in declaration order
serde_to_string(session) ==
    << <<"id", Uuid_to_string(session.id)>>,
       <<"algorithm", session.algorithm>>,
       <<"key_material", session.key_material>>,
       <<"created_at", session.created_at>>,
       <<"expires_at", session.expires_at>> >>

\* the member called name of a JSON object
Member(json, name) == json[CHOOSE i \in DOMAIN json : json[i][1] = name][2]

\* serde_json::from_str::<QKDSession>
serde_from_str(json) ==
    [id           |-> Uuid_parse(Member(json, "id")),
     algorithm    |-> Member(json, "algorithm"),
     key_material |-> Member(json, "key_material"),
     created_at   |-> Member(json, "created_at"),
     expires_at   |-> Member(json, "expires_at")]

\* get_db: a clone of the handle, or the error
get_db(db) == IF db THEN Ok("Database") ELSE Err("Database not initialized")

\* table.insert(key, value) inside a committed write transaction
Put(tbl, key, value) ==
    [k \in DOMAIN tbl \cup {key} |-> IF k = key THEN value ELSE tbl[k]]

\* insert that stores every session under one key, as config::save does
insert_FixedKey(db, tbl, session) ==
    IF ~get_db(db).ok THEN [res |-> get_db(db), table |-> tbl]
    ELSE [res |-> Ok(<< >>),
          table |-> Put(tbl, Uuid_to_string(0), serde_to_string(session))]

\* insert that writes to the database file without asking for the handle
insert_NoHandle(db, tbl, session) ==
    [res |-> Ok(<< >>),
     table |-> Put(tbl, Uuid_to_string(session.id), serde_to_string(session))]

\* qkd_sessions::insert: the result and the table after it
insert(db, tbl, session) ==
    IF ~get_db(db).ok THEN [res |-> get_db(db), table |-> tbl]
    ELSE LET key   == Uuid_to_string(session.id)
             value == serde_to_string(session)
         IN  [res |-> Ok(<< >>), table |-> Put(tbl, key, value)]

\* qkd_sessions::get_by_id
get_by_id(db, tbl, id) ==
    IF ~get_db(db).ok THEN get_db(db)
    ELSE LET key == Uuid_to_string(id)
         IN  IF key \in DOMAIN tbl
             THEN Ok(Some(serde_from_str(tbl[key])))
             ELSE Ok(None)

----------------------------------------------------------------------------
(* crypto/qkd.rs : QKDEncryption, the store side *)

\* save_session that stores a digest of the key material in its place
save_session_StoresDigest(self, db, tbl, t1, t2) ==
    insert(db, tbl, [id           |-> self.session_id,
                     algorithm    |-> "BB84-Hybrid",
                     key_material |-> MultiHasher_hash("SHA256", self.key_material).value,
                     created_at   |-> t1,
                     expires_at   |-> Some(t2 + ExpiryHours)])

\* save_session; t1 and t2 are what its two Utc::now() calls read
save_session(self, db, tbl, t1, t2) ==
    LET session == [id           |-> self.session_id,
                    algorithm    |-> "BB84-Hybrid",
                    key_material |-> self.key_material,
                    created_at   |-> t1,
                    expires_at   |-> Some(t2 + ExpiryHours)]
    IN  insert(db, tbl, session)

\* load_session that refuses a record whose expires_at has passed
load_session_ChecksExpiry(db, tbl, session_id) ==
    LET found == get_by_id(db, tbl, session_id)
    IN  IF ~found.ok THEN found
        ELSE IF found.value = None THEN Err("Session not found")
        ELSE LET session == found.value[1]
             IN  IF session.expires_at # None /\ session.expires_at[1] < now
                 THEN Err("Session expired")
                 ELSE Ok([session_id |-> session.id,
                          key_material |-> session.key_material])

\* load_session that answers a store miss with an empty session
load_session_OrDefault(db, tbl, session_id) ==
    LET found == get_by_id(db, tbl, session_id)
    IN  IF ~found.ok THEN found
        ELSE IF found.value = None
        THEN Ok([session_id |-> session_id, key_material |-> << >>])
        ELSE Ok([session_id |-> found.value[1].id,
                 key_material |-> found.value[1].key_material])

load_session(db, tbl, session_id) ==
    LET found == get_by_id(db, tbl, session_id)
    IN  IF ~found.ok THEN found
        ELSE IF found.value = None THEN Err("Session not found")
        ELSE LET session == found.value[1]
             IN  Ok([session_id |-> session.id, key_material |-> session.key_material])

----------------------------------------------------------------------------
(* The state machine *)

\* what a call left in `last`: the operation, the instance it ran on or returned
\* (0: none), its argument, its result, and whether the handle was set
Call(op, k, arg, res) ==
    [op |-> op, inst |-> k, arg |-> arg, res |-> res, db |-> DB]

\* the 12 bytes `rng.gen()` returns for a nonce
NonceOf(fill) == [i \in 1..NonceLen |-> (16 * fill + i) % 256]
Nonces == {NonceOf(fill) : fill \in NonceFills}
UsedNonces == {e.nonce : e \in encs}

\* envelopes returned by encrypt so far
Envelopes == {e.env : e \in encs}

\* the process starts: no handle, an empty table in the database file, no session
Init ==
    /\ DB = FALSE
    /\ table = << >>
    /\ inst = << >>
    /\ encs = {}
    /\ saved = {}
    /\ nextUuid = 0
    /\ now = 0
    /\ cryptex = << >>
    /\ calls = << >>
    /\ last = Call("start", 0, << >>, Ok(<< >>))

\* init_database: create or open the file, open the tables, set the handle
InitDatabase ==
    /\ DB' = TRUE
    /\ UNCHANGED <<table, inst, encs, saved, nextUuid, now, last, cryptex, calls>>

\* close_database: clear the handle; the file keeps its tables
CloseDatabase ==
    /\ DB' = FALSE
    /\ UNCHANGED <<table, inst, encs, saved, nextUuid, now, last, cryptex, calls>>

\* time passes
Tick ==
    /\ now < MaxTime
    /\ now' = now + 1
    /\ UNCHANGED <<DB, table, inst, encs, saved, nextUuid, last, cryptex, calls>>

\* QKDEncryption::new_session(key_size)
NewSession(key_size, seed) ==
    /\ Len(inst) < MaxInst
    /\ LET r == new_session(key_size, seed, nextUuid + 1)
       IN  /\ inst' = IF r.ok THEN Append(inst, r.value) ELSE inst
           /\ last' = Call("new_session", Len(inst'), key_size, r)
    /\ nextUuid' = nextUuid + 1
    /\ UNCHANGED <<DB, table, encs, saved, now, cryptex, calls>>

\* self.encrypt(plaintext) on instance k
Encrypt(k, plaintext, nonce_bytes) ==
    /\ Cardinality(encs) < MaxEnc
    /\ nonce_bytes \notin UsedNonces
    /\ LET r == encrypt(inst[k], plaintext, nonce_bytes)
       IN  /\ encs' = IF r.ok
                      THEN encs \cup {[inst |-> k, pt |-> plaintext,
                                       nonce |-> nonce_bytes, env |-> r.value]}
                      ELSE encs
           /\ last' = Call("encrypt", k, plaintext, r)
    /\ UNCHANGED <<DB, table, inst, saved, nextUuid, now, cryptex, calls>>

\* self.decrypt(ciphertext) on instance k
Decrypt(k, ciphertext) ==
    /\ last' = Call("decrypt", k, ciphertext, decrypt(inst[k], ciphertext))
    /\ UNCHANGED <<DB, table, inst, encs, saved, nextUuid, now, cryptex, calls>>

\* a save that moves the key material out of the instance
SaveSessionAt_MovesKey(k, t2) ==
    LET r == save_session(inst[k], DB, table, now, t2)
    IN  /\ table' = r.table
        /\ saved' = IF r.res.ok THEN saved \cup {k} ELSE saved
        /\ now' = t2
        /\ last' = Call("save_session", k, << >>, r.res)
        /\ inst' = [inst EXCEPT ![k].key_material = << >>]
        /\ UNCHANGED <<DB, encs, nextUuid, cryptex, calls>>

\* self.save_session() on instance k; its second Utc::now() reads t2
SaveSessionAt(k, t2) ==
    LET r == save_session(inst[k], DB, table, now, t2)
    IN  /\ table' = r.table
        /\ saved' = IF r.res.ok THEN saved \cup {k} ELSE saved
        /\ now' = t2
        /\ last' = Call("save_session", k, << >>, r.res)
        /\ UNCHANGED <<DB, inst, encs, nextUuid, cryptex, calls>>

\* save_session while the clock stands still
SaveSession(k) == SaveSessionAt(k, now)

\* QKDEncryption::load_session(&session_id); a session it returns is a new
\* instance, which the caller keeps while the model has room for it
LoadSession(session_id) ==
    LET r == load_session(DB, table, session_id)
        kept == r.ok /\ Len(inst) < MaxInst
    IN  /\ inst' = IF kept THEN Append(inst, r.value) ELSE inst
        /\ last' = Call("load_session", IF kept THEN Len(inst') ELSE 0, session_id, r)
        /\ UNCHANGED <<DB, table, encs, saved, nextUuid, now, cryptex, calls>>

\* uuids a caller may ask for: those handed out, and one that never was
Uuids == 1..(MaxInst + 1)

Next ==
    \/ InitDatabase
    \/ CloseDatabase
    \/ Tick
    \/ \E n \in SessionKeySizes, s \in SessionSeeds : NewSession(n, s)
    \/ \E k \in DOMAIN inst, p \in SessionPlaintexts, n \in Nonces : Encrypt(k, p, n)
    \/ \E k \in DOMAIN inst, c \in Envelopes : Decrypt(k, c)
    \/ \E k \in DOMAIN inst : SaveSession(k)
    \/ \E id \in Uuids : LoadSession(id)

Spec == Init /\ [][Next]_vars

----------------------------------------------------------------------------
(* One session, created when the clock reads 0, and the clock: the session *)
(* is saved, loaded and used while hours pass, up to and past the 24 hours *)
(* save_session writes as the expiry.                                      *)

\* the clock is followed up to this many hours
MaxHours == 50
\* how far the clock moves between two calls: an hour more than the expiry
ClockSteps == {ExpiryHours + 1}
\* the session the clock is followed for
ClockKeySize == 16

InitClock ==
    /\ DB = FALSE
    /\ table = << >>
    /\ encs = {}
    /\ saved = {}
    /\ nextUuid = 1
    /\ now = 0
    /\ cryptex = << >>
    /\ calls = << >>
    /\ LET r == new_session(ClockKeySize, 1, 1)
       IN  /\ inst = <<r.value>>
           /\ last = Call("new_session", 1, ClockKeySize, r)

\* hours pass between two calls
Advance(hours) ==
    /\ now + hours <= MaxHours
    /\ now' = now + hours
    /\ UNCHANGED <<DB, table, inst, encs, saved, nextUuid, last, cryptex, calls>>

NextClock ==
    \/ InitDatabase
    \/ \E h \in ClockSteps : Advance(h)
    \/ \E k \in DOMAIN inst : SaveSession(k)
    \/ \E id \in 1..2 : LoadSession(id)
    \/ \E k \in DOMAIN inst, p \in SessionPlaintexts, n \in Nonces : Encrypt(k, p, n)
    \/ \E k \in DOMAIN inst, c \in Envelopes : Decrypt(k, c)

SpecClock == InitClock /\ [][NextClock]_vars

----------------------------------------------------------------------------
(* BB84Simulator's functions on their own: bob_measure, sift_key and       *)
(* finalize_key applied to the inputs below.  They keep no state, so a     *)
(* behaviour is one call.                                                  *)

\* longest basis and value sequences given to bob_measure and sift_key
MaxBits == 3
\* longest bit sequence of which every value is given to finalize_key
MaxPackBits == 9
\* largest target_size given to finalize_key
MaxTarget == 2

\* the sequences of at most n elements of S
RECURSIVE SeqsUpTo(_, _)
SeqsUpTo(S, n) ==
    IF n = 0 THEN {<< >>}
    ELSE LET shorter == SeqsUpTo(S, n - 1)
         IN  shorter \cup {Append(q, x) : q \in shorter, x \in S}

Bases == {Basis(TRUE), Basis(FALSE)}
BasisSeqs == SeqsUpTo(Bases, MaxBits)
ValueSeqs == SeqsUpTo(BOOLEAN, MaxBits)
QubitSeqs == SeqsUpTo([basis : Bases, value : BOOLEAN], MaxBits)
MeasureSeeds == {1, 2, 3}
TargetSizes == 0..MaxTarget
\* every bit sequence up to MaxPackBits, and some around 8 * MaxTarget bits
PackSeqs ==
    SeqsUpTo(BOOLEAN, MaxPackBits)
    \cup {[i \in 1..n |-> (i % m) < r] :
              n \in (8 * MaxTarget - 1)..(8 * MaxTarget + 1), m \in {3, 5}, r \in {1, 2, 3}}

\* simulator.bob_measure(&alice_bits)
BobMeasure(alice_bits, seed) ==
    /\ last.op = "start"
    /\ last' = Call("bob_measure", 0, alice_bits, Ok(bob_measure(alice_bits, seed)))
    /\ UNCHANGED <<DB, table, inst, encs, saved, nextUuid, now, cryptex, calls>>

\* BB84Simulator::sift_key(&alice_bases, &bob_bases, &bob_values)
SiftKey(alice_bases, bob_bases, bob_values) ==
    /\ last.op = "start"
    /\ last' = Call("sift_key", 0, <<alice_bases, bob_bases, bob_values>>,
                    Ok(sift_key(alice_bases, bob_bases, bob_values)))
    /\ UNCHANGED <<DB, table, inst, encs, saved, nextUuid, now, cryptex, calls>>

\* BB84Simulator::finalize_key(sifted_key, target_size)
FinalizeKey(sifted_key, target_size) ==
    /\ last.op = "start"
    /\ last' = Call("finalize_key", 0, <<sifted_key, target_size>>,
                    Ok(finalize_key(sifted_key, target_size)))
    /\ UNCHANGED <<DB, table, inst, encs, saved, nextUuid, now, cryptex, calls>>

\* QKDKeyGenerator::generate_bb84_key(key_size)
GenerateBB84Key(key_size, seed) ==
    /\ last.op = "start"
    /\ last' = Call("generate_bb84_key", 0, <<key_size, seed>>,
                    generate_bb84_key(key_size, seed))
    /\ UNCHANGED <<DB, table, inst, encs, saved, nextUuid, now, cryptex, calls>>

\* QKDKeyGenerator::generate_hybrid_key(key_size)
GenerateHybridKey(key_size, seed) ==
    /\ last.op = "start"
    /\ last' = Call("generate_hybrid_key", 0, <<key_size, seed>>,
                    generate_hybrid_key(key_size, seed))
    /\ UNCHANGED <<DB, table, inst, encs, saved, nextUuid, now, cryptex, calls>>

NextBB84 ==
    \/ \E q \in QubitSeqs, s \in MeasureSeeds : BobMeasure(q, s)
    \/ \E a \in BasisSeqs, b \in BasisSeqs, v \in ValueSeqs :
          Len(a) = Len(b) /\ Len(b) = Len(v) /\ SiftKey(a, b, v)
    \/ \E bits \in PackSeqs, n \in TargetSizes : FinalizeKey(bits, n)
    \/ \E n \in KeySizes, s \in Seeds : GenerateBB84Key(n, s)
    \/ \E n \in KeySizes, s \in Seeds : GenerateHybridKey(n, s)

SpecBB84 == Init /\ [][NextBB84]_vars

----------------------------------------------------------------------------
(* One session and what decrypt does with every kind of input: the         *)
(* envelopes encrypt returned, and those envelopes cut short, extended or  *)
(* changed in one byte, and runs of zero bytes.                            *)

\* env with delta added to byte i
Tamper(env, i, delta) == [env EXCEPT ![i] = (@ + delta) % 256]
\* the first n bytes of env
Prefix(env, n) == SubSeq(env, 1, n)
\* n zero bytes
Zeros(n) == [i \in 1..n |-> 0]
ZeroLengths == {0, NonceLen - 1, NonceLen, NonceLen + TagLen - 1, NonceLen + TagLen}

\* a process that has created one session
InitEnvelope ==
    /\ DB = FALSE
    /\ table = << >>
    /\ encs = {}
    /\ saved = {}
    /\ nextUuid = 1
    /\ now = 0
    /\ cryptex = << >>
    /\ calls = << >>
    /\ \E n \in KeySizes, s \in SessionSeeds :
          LET r == new_session(n, s, 1)
          IN  /\ inst = <<r.value>>
              /\ last = Call("new_session", 1, n, r)

NextEnvelope ==
    \/ \E k \in DOMAIN inst, p \in Plaintexts, n \in Nonces : Encrypt(k, p, n)
    \/ \E k \in DOMAIN inst, c \in Envelopes : Decrypt(k, c)
    \/ \E k \in DOMAIN inst, c \in Envelopes, i \in 1..(NonceLen + TagLen + 2), d \in Deltas :
          i <= Len(c) /\ Decrypt(k, Tamper(c, i, d))
    \/ \E k \in DOMAIN inst, c \in Envelopes, n \in 0..(NonceLen + TagLen + 2) :
          n < Len(c) /\ Decrypt(k, Prefix(c, n))
    \/ \E k \in DOMAIN inst, c \in Envelopes : Decrypt(k, c \o <<0>>)
    \/ \E k \in DOMAIN inst, n \in ZeroLengths : Decrypt(k, Zeros(n))

SpecEnvelope == InitEnvelope /\ [][NextEnvelope]_vars

----------------------------------------------------------------------------
(* Claims *)

\* the session an instance stands for, as a caller sees it
SessionOf(k) == [session_id |-> inst[k].session_id, key_material |-> inst[k].key_material]

\* C1: on every session instance (created by new_session with a key size
\* below, at or above 32, or returned by load_session), decrypt of what
\* encrypt returned for a plaintext succeeds and returns that plaintext:
\* for every plaintext and nonce encrypt could be called with, and for the
\* decrypt call just made on an envelope the same instance produced.
C1_RoundTrip ==
    /\ \A k \in DOMAIN inst, p \in Plaintexts, n \in Nonces :
          LET c == encrypt(inst[k], p, n)
              d == decrypt(inst[k], c.value)
          IN  c.ok /\ d.ok /\ d.value = p
    /\ \A e \in encs :
          (last.op = "decrypt" /\ last.inst = e.inst /\ last.arg = e.env)
              => (last.res.ok /\ last.res.value = e.pt)

\* a decrypt call returned the plaintext on an instance that derives its
\* cipher key by hashing, and on one that load_session returned
C1_Witness ==
    /\ last.op = "decrypt"
    /\ last.res.ok
    /\ \E e \in encs : e.inst = last.inst /\ e.env = last.arg /\ last.res.value = e.pt
    /\ Len(inst[last.inst].key_material) < KeyLen
    /\ \E j \in DOMAIN inst : j < last.inst /\ inst[j] = inst[last.inst]

\* C2: once save_session on an instance has returned Ok, load_session of its
\* id through the store (the handle being set) returns a session with the
\* same id and the same key material, whatever was saved in between.
C2_SaveLoad ==
    /\ \A k \in saved :
          DB => load_session(DB, table, inst[k].session_id) = Ok(SessionOf(k))
    /\ \A k \in saved :
          (last.op = "load_session" /\ last.db /\ last.arg = inst[k].session_id)
              => (last.res.ok /\ last.res.value = SessionOf(k))

\* load_session returned a saved session after another session was saved too
C2_Witness ==
    /\ last.op = "load_session"
    /\ last.res.ok
    /\ \E k \in saved, j \in saved :
          /\ inst[k].session_id = last.arg
          /\ inst[j].session_id # last.arg
          /\ last.res.value = SessionOf(k)

\* every instance of `instances` can encrypt, and opens every envelope of
\* `made` that was made under its session id
Usable(instances, made) ==
    \A k \in DOMAIN instances :
        /\ \A p \in SessionPlaintexts : \E n \in Nonces : encrypt(instances[k], p, n).ok
        /\ \A e \in made :
              instances[e.inst].session_id = instances[k].session_id
                  => LET d == decrypt(instances[k], e.env)
                     IN  d.ok /\ d.value = e.pt

\* C3: no step retires a session: every step keeps every instance as it is
\* and every envelope made so far, and after it every instance still
\* encrypts and still opens the envelopes of its session id, whether it is
\* the instance that made them or one reloaded from the store.  (Usable holds of
\* the initial state, which has no instance, so it is looked at after the
\* steps that change inst or encs.)
C3_NoRetirement ==
    [][ /\ \A k \in DOMAIN inst : k \in DOMAIN inst' /\ inst'[k] = inst[k]
        /\ encs \subseteq encs'
        /\ (inst' # inst \/ encs' # encs) => Usable(inst', encs') ]_vars

\* an instance reloaded from the store, and saved again, opened an envelope
\* the original made
C3_Witness ==
    /\ last.op = "decrypt"
    /\ last.res.ok
    /\ \E e \in encs :
          /\ e.env = last.arg
          /\ e.inst # last.inst
          /\ inst[e.inst].session_id = inst[last.inst].session_id
          /\ last.res.value = e.pt
          /\ last.inst \in saved

\* C4: with the handle set and no record stored under id, load_session(id)
\* fails with "Session not found" and returns no session.
C4_NotFound ==
    /\ \A id \in Uuids :
          (DB /\ Uuid_to_string(id) \notin DOMAIN table)
              => load_session(DB, table, id) = Err("Session not found")
    /\ (last.op = "load_session" /\ last.db
          /\ Uuid_to_string(last.arg) \notin DOMAIN table)
          => last.res = Err("Session not found")

\* load_session failed for an id that was never stored while another is stored
C4_Witness ==
    /\ last.op = "load_session"
    /\ last.db
    /\ last.res = Err("Session not found")
    /\ Uuid_to_string(last.arg) \notin DOMAIN table
    /\ DOMAIN table # {}

\* C5 (as claimed): new_session(n) returns key material of exactly n bytes.
C5_KeyLengthAsClaimed ==
    last.op = "new_session"
        => (last.res.ok /\ Len(last.res.value.key_material) = last.arg)

\* C6 (as claimed): new_session(n) with n > 32 ends in a reported failure.
C6_FailsAbove32AsClaimed ==
    (last.op = "new_session" /\ last.arg > 32) => ~last.res.ok

\* C7: decrypt of an envelope of 0..11 bytes fails with "Ciphertext too short"
\* and runs neither the key derivation nor the cipher.
C7_ShortEnvelope ==
    (last.op = "decrypt" /\ Len(last.arg) < 12)
        => /\ ~last.res.ok
           /\ last.res.err = "Ciphertext too short"
           /\ last.res.steps = << >>

\* decrypt refused an envelope of 11 bytes, and one of none
C7_Witness ==
    /\ last.op = "decrypt"
    /\ Len(last.arg) \in {0, 11}
    /\ last.res.err = "Ciphertext too short"

\* the positions where two byte strings of one length differ
Differ(a, b) == {i \in 1..Len(a) : a[i] # b[i]}

\* C8: an envelope that differs in exactly one byte (of the nonce, the
\* ciphertext or the tag) from one encrypt returned on the session makes
\* decrypt fail with "Decryption failed"; no plaintext is returned.
C8_Tamper ==
    \A e \in encs :
        (/\ last.op = "decrypt"
         /\ inst[last.inst] = inst[e.inst]
         /\ Len(last.arg) = Len(e.env)
         /\ Cardinality(Differ(last.arg, e.env)) = 1)
            => /\ ~last.res.ok
               /\ last.res.err = "Decryption failed"
               /\ last.res.value = << >>

\* decrypt failed on an envelope changed in one byte of its nonce
C8_Witness ==
    /\ last.op = "decrypt"
    /\ last.res.err = "Decryption failed"
    /\ \E e \in encs :
          /\ Len(last.arg) = Len(e.env)
          /\ Len(e.pt) > 0
          /\ \E i \in 1..NonceLen : Differ(last.arg, e.env) = {i}

\* C9: decrypt ends in one of three ways: the whole plaintext of an envelope
\* encrypt returned, "Ciphertext too short", or "Decryption failed"; and every
\* envelope of 12 bytes or more that encrypt did not return for this key
\* (among them those of 12..27 bytes, too short to hold a tag) ends in
\* "Decryption failed".
C9_Outcomes ==
    last.op = "decrypt" =>
        LET valid == {e \in encs : inst[e.inst] = inst[last.inst] /\ e.env = last.arg}
        IN  /\ last.res.ok => \E e \in valid : last.res.value = e.pt
            /\ ~last.res.ok => last.res.err \in {"Ciphertext too short", "Decryption failed"}
            /\ (Len(last.arg) >= 12 /\ valid = {})
                  => (~last.res.ok /\ last.res.err = "Decryption failed")
            /\ (last.res.err = "Decryption failed") => Len(last.arg) >= 12

\* decrypt failed with "Decryption failed" on an envelope of 12..27 bytes
C9_Witness ==
    /\ last.op = "decrypt"
    /\ Len(last.arg) \in 12..27
    /\ last.res.err = "Decryption failed"

\* C10: two encrypt calls on one session with one plaintext return different
\* envelopes, whose first 12 bytes (the nonces) differ, and each envelope
\* decrypts back to the plaintext.
C10_NonceFreshness ==
    \A e1 \in encs, e2 \in encs :
        (/\ e1 # e2
         /\ inst[e1.inst].session_id = inst[e2.inst].session_id
         /\ e1.pt = e2.pt)
            => /\ e1.env # e2.env
               /\ SubSeq(e1.env, 1, NonceLen) # SubSeq(e2.env, 1, NonceLen)
               /\ LET d == decrypt(inst[e1.inst], e1.env)
                  IN  d.ok /\ d.value = e1.pt

\* one instance has encrypted one plaintext twice and decrypted an envelope
C10_Witness ==
    /\ last.op = "decrypt"
    /\ last.res.ok
    /\ \E e1 \in encs, e2 \in encs :
          /\ e1 # e2
          /\ e1.inst = e2.inst
          /\ e1.pt = e2.pt
          /\ last.arg = e2.env
          /\ last.inst = e2.inst

\* the cipher key the specification gives a session with this key material:
\* its first 32 bytes, or its SHA-256 digest when it has fewer
KeyOf(key_material) ==
    IF Len(key_material) >= 32
    THEN SubSeq(key_material, 1, 32)
    ELSE MultiHasher_hash("SHA256", key_material).value

\* C11: an envelope encrypt returned for a plaintext of L bytes has L + 28
\* bytes: the 12 bytes of the nonce of that call, then the L + 16 bytes the
\* cipher gave for the plaintext under that nonce; and decrypt hands the
\* cipher the first 12 bytes of its input as the nonce and the rest as data.
C11_WireFormat ==
    /\ \A e \in encs :
          LET rest == SubSeq(e.env, 13, Len(e.env))
          IN  /\ Len(e.env) = Len(e.pt) + 28
              /\ SubSeq(e.env, 1, 12) = e.nonce
              /\ Len(rest) = Len(e.pt) + 16
              /\ rest = cipher_encrypt(KeyOf(inst[e.inst].key_material),
                                       e.nonce, e.pt).value
    /\ (last.op = "decrypt" /\ Len(last.arg) >= 12)
          => LET r == decrypt_with_key(KeyOf(inst[last.inst].key_material),
                                       SubSeq(last.arg, 13, Len(last.arg)),
                                       SubSeq(last.arg, 1, 12))
             IN  /\ last.res.ok = r.ok
                 /\ last.res.err = r.err
                 /\ last.res.value = r.value

\* envelopes of an empty and of a 2-byte plaintext were returned, and decrypt
\* opened one of them
C11_Witness ==
    /\ \E e \in encs : Len(e.pt) = 0 /\ Len(e.env) = 28
    /\ \E e \in encs : Len(e.pt) = 2 /\ Len(e.env) = 30
    /\ last.op = "decrypt"
    /\ last.res.ok
    /\ last.arg \in Envelopes

\* the positions where the sender's and the receiver's bases agree
Matching(sender_bases, receiver_bases) ==
    {i \in 1..Len(sender_bases) : sender_bases[i] = receiver_bases[i]}

\* the j-th smallest element of a set of numbers
Nth(S, j) == CHOOSE i \in S : Cardinality({m \in S : m < i}) = j - 1

\* C12: for sequences of one length, sift_key returns the receiver's values
\* at the positions where the bases agree, in their order and nothing else:
\* as many values as there are such positions.
C12_Sift ==
    last.op = "sift_key" =>
        LET M   == Matching(last.arg[1], last.arg[2])
            out == last.res.value
        IN  /\ Len(out) = Cardinality(M)
            /\ \A j \in 1..Len(out) : out[j] = last.arg[3][Nth(M, j)]

\* sift_key dropped the middle one of three positions and kept two values
\* that differ
C12_Witness ==
    /\ last.op = "sift_key"
    /\ Matching(last.arg[1], last.arg[2]) = {1, 3}
    /\ last.res.value = <<last.arg[3][1], last.arg[3][3]>>
    /\ last.arg[3][1] # last.arg[3][3]

\* C13: bob_measure returns as many values and as many bases as it was given
\* qubits, and where Bob's basis is the qubit's basis the value is the
\* qubit's value.
C13_Measure ==
    last.op = "bob_measure" =>
        LET q == last.arg
            r == last.res.value
        IN  /\ Len(r.values) = Len(q)
            /\ Len(r.bases) = Len(q)
            /\ \A i \in 1..Len(q) :
                  r.bases[i] = q[i].basis => r.values[i] = q[i].value

\* bob_measure read one qubit in its basis and another in the other basis,
\* where it got the other value
C13_Witness ==
    /\ last.op = "bob_measure"
    /\ \E i \in 1..Len(last.arg) :
          /\ last.res.value.bases[i] = last.arg[i].basis
          /\ last.res.value.values[i] = last.arg[i].value
    /\ \E i \in 1..Len(last.arg) :
          /\ last.res.value.bases[i] # last.arg[i].basis
          /\ last.res.value.values[i] # last.arg[i].value

\* C14: finalize_key(bits, n) returns n bytes, for no bits, fewer than 8n,
\* 8n and more than 8n bits.
C14_FinalLength ==
    last.op = "finalize_key" => Len(last.res.value) = last.arg[2]

\* finalize_key returned 2 bytes for 9 bits
C14_Witness ==
    /\ last.op = "finalize_key"
    /\ Len(last.arg[1]) = 9
    /\ last.arg[2] = 2
    /\ Len(last.res.value) = 2

\* bit 7 - k of the byte that holds bits 8j .. 8j + 7 (counted from 0) of a
\* bit sequence, most significant first; a bit past the end counts as 0
BitAt(bits, j, k) ==
    IF 8 * j + k + 1 <= Len(bits) /\ bits[8 * j + k + 1] THEN 2 ^ (7 - k) ELSE 0

\* the byte with bit i of the sequence at position 7 - (i mod 8) of byte i div 8
ByteAt(bits, j) ==
    BitAt(bits, j, 0) + BitAt(bits, j, 1) + BitAt(bits, j, 2) + BitAt(bits, j, 3)
    + BitAt(bits, j, 4) + BitAt(bits, j, 5) + BitAt(bits, j, 6) + BitAt(bits, j, 7)

\* C15 (as claimed): given fewer than 8n bits, finalize_key(bits, n) packs
\* every bit, those of a last group of fewer than 8 too, bit i into byte
\* i div 8 at position 7 - (i mod 8), and leaves every other position zero.
C15_PartialGroupAsClaimed ==
    (last.op = "finalize_key" /\ Len(last.arg[1]) < 8 * last.arg[2])
        => \A j \in 1..Len(last.res.value) :
              last.res.value[j] = ByteAt(last.arg[1], j - 1)

\* C16: given 8n bits or more, byte j of finalize_key(bits, n) has bit 8j as
\* its most significant bit and bit 8j + 7 as its least, and the bits from
\* 8n on change nothing.
C16_MsbFirst ==
    (last.op = "finalize_key" /\ Len(last.arg[1]) >= 8 * last.arg[2])
        => /\ Len(last.res.value) = last.arg[2]
           /\ \A j \in 1..Len(last.res.value) :
                 last.res.value[j] = ByteAt(last.arg[1], j - 1)
           /\ last.res.value
                 = finalize_key(SubSeq(last.arg[1], 1, 8 * last.arg[2]), last.arg[2])
           /\ \A tail \in {<<TRUE>>, <<FALSE, TRUE>>} :
                 finalize_key(SubSeq(last.arg[1], 1, 8 * last.arg[2]) \o tail,
                              last.arg[2]) = last.res.value

\* finalize_key packed 17 bits into 2 bytes that are neither 0 nor 255 nor
\* each other's mirror, the 17th bit being set
C16_Witness ==
    /\ last.op = "finalize_key"
    /\ Len(last.arg[1]) = 17
    /\ last.arg[2] = 2
    /\ last.arg[1][17]
    /\ last.res.value[1] \notin {0, 255}
    /\ last.res.value[2] \notin {0, 255}
    /\ last.res.value[1] # last.res.value[2]

\* key material longer than any new_session returns
LongMaterial == [i \in 1..40 |-> (7 * i) % 256]

\* C17: the cipher key of a session is KeyOf of its key material and nothing
\* else: encrypt and decrypt both work under that key, it has 32 bytes, the
\* cipher accepts it, and no call ends in the cipher's key error.
C17_KeyDerivation ==
    /\ \A self \in {inst[k] : k \in DOMAIN inst}
                   \cup {[session_id |-> 0, key_material |-> LongMaterial]} :
          LET key == KeyOf(self.key_material)
          IN  /\ Len(key) = 32
              /\ new_from_slice(key).ok
              /\ \A p \in Plaintexts, n \in Nonces :
                    LET c == encrypt(self, p, n)
                        d == decrypt(self, c.value)
                        w == decrypt_with_key(key, SubSeq(c.value, 13, Len(c.value)), n)
                    IN  /\ c = encrypt_with_key(key, p, n)
                        /\ d.ok = w.ok /\ d.err = w.err /\ d.value = w.value
                        /\ d.steps = <<"derive_key">> \o w.steps
    /\ last.op = "encrypt" => last.res.ok
    /\ (last.op = "decrypt" /\ Len(last.arg) >= 12)
          => /\ last.res.err # "Key error"
             /\ last.res.steps = <<"derive_key", "new_from_slice", "cipher_decrypt">>

\* a session whose key material is empty, so that its key is a digest, has
\* encrypted and then opened the envelope
C17_Witness ==
    /\ last.op = "decrypt"
    /\ last.res.ok
    /\ last.arg \in Envelopes
    /\ inst[last.inst].key_material = << >>
    /\ Len(KeyOf(inst[last.inst].key_material)) = 32

\* the records of the store
Records == {serde_from_str(table[key]) : key \in DOMAIN table}

\* C18 (as claimed): a stored record has as created_at the time new_session
\* made the session (0 on this clock) and as expires_at 24 hours after it,
\* however often and whenever the session was saved.
C18_TimesAsClaimed ==
    \A session \in Records :
        /\ session.created_at = 0
        /\ session.expires_at = Some(0 + 24)

\* C19: load_session does not look at expires_at: whatever the clock reads,
\* a stored record loads, as the session it was saved from, and the loaded
\* session encrypts and opens the envelopes made before.
C19_NoExpiryCheck ==
    /\ \A session \in Records :
          LET r == load_session(TRUE, table, session.id)
          IN  /\ r.ok
              /\ r.value = [session_id |-> session.id,
                            key_material |-> session.key_material]
              /\ r.value = inst[1]
              /\ \A e \in encs :
                    LET d == decrypt(r.value, e.env)
                    IN  d.ok /\ d.value = e.pt
              /\ \A p \in SessionPlaintexts, n \in Nonces :
                    encrypt(r.value, p, n) = encrypt(inst[1], p, n)
    /\ (last.op = "load_session" /\ last.db
          /\ Uuid_to_string(last.arg) \in DOMAIN table)
          => (last.res.ok /\ last.res.value = inst[1])

\* load_session returned the session of a record that had expired, after the
\* session had made an envelope
C19_Witness ==
    /\ last.op = "load_session"
    /\ last.res.ok
    /\ encs # {}
    /\ \E session \in Records :
          /\ session.id = last.arg
          /\ session.expires_at # None
          /\ session.expires_at[1] < now

\* C20: the session_id and the key_material of an instance are those it was
\* made with: no step (an encrypt, a decrypt, a save_session that succeeds
\* or fails, a load, a change of the stored record) changes them or removes
\* the instance.
C20_Frame ==
    [][ \A k \in DOMAIN inst :
           /\ k \in DOMAIN inst'
           /\ inst'[k].session_id = inst[k].session_id
           /\ inst'[k].key_material = inst[k].key_material ]_vars

\* a save has overwritten, at a later time, the record a second instance
\* was loaded from, and both instances are the session new_session returned
C20_Witness ==
    /\ last.op = "save_session"
    /\ last.res.ok
    /\ Len(inst) = 2
    /\ inst[2] = inst[1]
    /\ inst[1] = new_session(ClockKeySize, 1, 1).value
    /\ \E session \in Records : session.created_at > ExpiryHours

----------------------------------------------------------------------------
(* Threads that call encrypt and decrypt on one shared session instance.   *)
(* A call reads self.key_material when it derives the cipher key and runs  *)
(* the cipher afterwards; other threads' steps come in between.            *)

\* threads that share the instance
MaxThreads == 2
Threads == 1..MaxThreads
\* the session the threads share
SharedKeySize == 16
SharedSession == new_session(SharedKeySize, 1, 1).value

\* a thread outside any call
NoCall == [op |-> "none", pc |-> "idle", arg |-> << >>, key |-> << >>,
           nonce |-> << >>, res |-> Ok(<< >>)]

InitThreads ==
    /\ DB = FALSE
    /\ table = << >>
    /\ encs = {}
    /\ saved = {}
    /\ nextUuid = 1
    /\ now = 0
    /\ cryptex = << >>
    /\ inst = <<SharedSession>>
    /\ last = Call("new_session", 1, SharedKeySize, Ok(SharedSession))
    /\ calls = [t \in Threads |-> NoCall]

\* thread t enters self.encrypt(plaintext) or self.decrypt(ciphertext)
ThreadCall(t, op, arg) ==
    /\ calls[t].pc \in {"idle", "done"}
    /\ op = "encrypt" => Cardinality(encs) + Cardinality(
                             {u \in Threads : calls[u].op = "encrypt"
                                              /\ calls[u].pc \in {"called", "derived"}}) < MaxEnc
    /\ calls' = [calls EXCEPT ![t] = [NoCall EXCEPT !.op = op, !.pc = "called", !.arg = arg]]
    /\ UNCHANGED <<DB, table, inst, encs, saved, nextUuid, now, last, cryptex>>

\* a derivation that keeps the derived key in the instance, in the place of
\* the key material
ThreadDerive_CachesKey(t) ==
    /\ calls[t].pc = "called"
    /\ LET self == inst[1]
           key  == IF Len(self.key_material) >= KeyLen
                   THEN SubSeq(self.key_material, 1, KeyLen)
                   ELSE MultiHasher_hash("SHA256", self.key_material).value
       IN  /\ calls' = [calls EXCEPT ![t] =
                        IF calls[t].op = "decrypt" /\ Len(calls[t].arg) < NonceLen
                        THEN [@ EXCEPT !.pc = "done",
                                       !.res = Traced(Err("Ciphertext too short"), << >>)]
                        ELSE [@ EXCEPT !.pc = "derived", !.key = key]]
           /\ inst' = [inst EXCEPT ![1].key_material = key]
    /\ UNCHANGED <<DB, table, encs, saved, nextUuid, now, last, cryptex>>

\* `let key_bytes = if self.key_material.len() >= 32 { .. } else { hash }`
\* of encrypt, and of decrypt after its length check
ThreadDerive(t) ==
    /\ calls[t].pc = "called"
    /\ LET self == inst[1]
           key  == IF Len(self.key_material) >= KeyLen
                   THEN SubSeq(self.key_material, 1, KeyLen)
                   ELSE MultiHasher_hash("SHA256", self.key_material).value
       IN  calls' = [calls EXCEPT ![t] =
                        IF calls[t].op = "decrypt" /\ Len(calls[t].arg) < NonceLen
                        THEN [@ EXCEPT !.pc = "done",
                                       !.res = Traced(Err("Ciphertext too short"), << >>)]
                        ELSE [@ EXCEPT !.pc = "derived", !.key = key]]
    /\ UNCHANGED <<DB, table, inst, encs, saved, nextUuid, now, last, cryptex>>

\* encrypt_with_key with the key derived before: the thread's own generator
\* gives the nonce
ThreadEncrypt(t, nonce_bytes) ==
    /\ calls[t].pc = "derived"
    /\ calls[t].op = "encrypt"
    /\ nonce_bytes \notin UsedNonces
    /\ LET r == encrypt_with_key(calls[t].key, calls[t].arg, nonce_bytes)
       IN  /\ calls' = [calls EXCEPT ![t] =
                           [@ EXCEPT !.pc = "done", !.nonce = nonce_bytes, !.res = r]]
           /\ encs' = IF r.ok
                      THEN encs \cup {[inst |-> 1, pt |-> calls[t].arg,
                                       nonce |-> nonce_bytes, env |-> r.value]}
                      ELSE encs
    /\ UNCHANGED <<DB, table, inst, saved, nextUuid, now, last, cryptex>>

\* decrypt_with_key with the key derived before
ThreadDecrypt(t) ==
    /\ calls[t].pc = "derived"
    /\ calls[t].op = "decrypt"
    /\ LET ciphertext == calls[t].arg
           r == decrypt_with_key(calls[t].key,
                                 SubSeq(ciphertext, NonceLen + 1, Len(ciphertext)),
                                 SubSeq(ciphertext, 1, NonceLen))
       IN  calls' = [calls EXCEPT ![t] =
                        [@ EXCEPT !.pc = "done",
                                  !.res = Traced(r, <<"derive_key">> \o r.steps)]]
    /\ UNCHANGED <<DB, table, inst, encs, saved, nextUuid, now, last, cryptex>>

NextThreads ==
    \/ \E t \in Threads, p \in SessionPlaintexts : ThreadCall(t, "encrypt", p)
    \/ \E t \in Threads, c \in Envelopes : ThreadCall(t, "decrypt", c)
    \/ \E t \in Threads, c \in Envelopes : ThreadCall(t, "decrypt", Prefix(c, NonceLen - 1))
    \/ \E t \in Threads, c \in Envelopes : ThreadCall(t, "decrypt", Tamper(c, Len(c), 1))
    \/ \E t \in Threads : ThreadDerive(t)
    \/ \E t \in Threads, n \in Nonces : ThreadEncrypt(t, n)
    \/ \E t \in Threads : ThreadDecrypt(t)

SpecThreads == InitThreads /\ [][NextThreads]_vars

\* C21: whatever the interleaving of the threads' steps, a call that has
\* returned has returned what the same call returns run alone on the session
\* (an encrypt an envelope that opens to its plaintext, a decrypt of an
\* envelope encrypt returned its plaintext), and the session is the one
\* new_session made.
C21_Concurrent ==
    /\ inst = <<SharedSession>>
    /\ \A t \in Threads :
          calls[t].pc = "done" =>
              /\ calls[t].op = "encrypt" =>
                    /\ calls[t].res = encrypt(SharedSession, calls[t].arg, calls[t].nonce)
                    /\ calls[t].res.ok
                    /\ decrypt(SharedSession, calls[t].res.value).value = calls[t].arg
              /\ calls[t].op = "decrypt" =>
                    /\ calls[t].res = decrypt(SharedSession, calls[t].arg)
                    /\ \A e \in encs :
                          e.env = calls[t].arg
                              => (calls[t].res.ok /\ calls[t].res.value = e.pt)

\* one thread's decrypt returned the plaintext while the other thread was
\* inside encrypt, between deriving the key and running the cipher
C21_Witness ==
    /\ calls[1].op = "encrypt"
    /\ calls[1].pc = "derived"
    /\ calls[2].op = "decrypt"
    /\ calls[2].pc = "done"
    /\ calls[2].res.ok
    /\ calls[2].arg \in Envelopes

----------------------------------------------------------------------------
(* Threads that save and read sessions through qkd_sessions::insert and    *)
(* get_by_id.  redb gives one write transaction at a time (begin_write     *)
(* waits for the one in progress), keeps a transaction's writes to itself  *)
(* until commit, publishes them all at once at commit, and gives a read    *)
(* transaction the last committed state.                                   *)

\* a thread outside any store call
NoStoreCall == [op |-> "none", pc |-> "idle", arg |-> << >>, txn |-> << >>,
                seen |-> {}, res |-> Ok(<< >>)]

\* the two sessions the threads save
StoreSessions == <<new_session(16, 1, 1).value, new_session(32, 1, 2).value>>

InitStore ==
    /\ DB = TRUE
    /\ table = << >>
    /\ encs = {}
    /\ saved = {}
    /\ nextUuid = 2
    /\ now = 0
    /\ cryptex = << >>
    /\ inst = StoreSessions
    /\ last = Call("new_session", 2, 32, Ok(StoreSessions[2]))
    /\ calls = [t \in Threads |-> NoStoreCall]

\* what the table holds under a session id: Some(record) or None
Stored(tbl, id) ==
    IF Uuid_to_string(id) \in DOMAIN tbl
    THEN Some(serde_from_str(tbl[Uuid_to_string(id)]))
    ELSE None

\* thread t enters save_session on instance k: the record is built, with
\* the clock's reading, before insert is called
StoreSave(t, k) ==
    /\ calls[t].pc \in {"idle", "done"}
    /\ calls' = [calls EXCEPT ![t] =
                    [NoStoreCall EXCEPT
                        !.op = "insert", !.pc = "called",
                        !.arg = [id           |-> inst[k].session_id,
                                 algorithm    |-> "BB84-Hybrid",
                                 key_material |-> inst[k].key_material,
                                 created_at   |-> now,
                                 expires_at   |-> Some(now + ExpiryHours)]]]
    /\ UNCHANGED <<DB, table, inst, encs, saved, nextUuid, now, last, cryptex>>

\* thread t enters get_by_id(id); seen collects what the store holds under
\* id from now until the call returns
StoreGet(t, id) ==
    /\ calls[t].pc \in {"idle", "done"}
    /\ calls' = [calls EXCEPT ![t] =
                    [NoStoreCall EXCEPT !.op = "get_by_id", !.pc = "called",
                                        !.arg = id, !.seen = {Stored(table, id)}]]
    /\ UNCHANGED <<DB, table, inst, encs, saved, nextUuid, now, last, cryptex>>

\* `let db = get_db()?;`
StoreGetDb(t) ==
    /\ calls[t].pc = "called"
    /\ calls' = [calls EXCEPT ![t] =
                    IF get_db(DB).ok THEN [@ EXCEPT !.pc = "has_db"]
                    ELSE [@ EXCEPT !.pc = "done", !.res = get_db(DB)]]
    /\ UNCHANGED <<DB, table, inst, encs, saved, nextUuid, now, last, cryptex>>

\* a thread is inside a write transaction
Writing(t) == calls[t].op = "insert" /\ calls[t].pc \in {"writing", "inserted"}

\* a begin_write that does not wait for the write transaction in progress
StoreBegin_NoWait(t) ==
    /\ calls[t].pc = "has_db"
    /\ calls' = [calls EXCEPT ![t] =
                    [@ EXCEPT !.pc = IF calls[t].op = "insert" THEN "writing"
                                     ELSE "reading",
                              !.txn = table]]
    /\ UNCHANGED <<DB, table, inst, encs, saved, nextUuid, now, last, cryptex>>

\* `db.begin_write()?` (once no other write transaction is in progress) and
\* `db.begin_read()?`: the transaction starts from the committed table
StoreBegin(t) ==
    /\ calls[t].pc = "has_db"
    /\ calls[t].op = "insert" => \A u \in Threads : ~Writing(u)
    /\ calls' = [calls EXCEPT ![t] =
                    [@ EXCEPT !.pc = IF calls[t].op = "insert" THEN "writing"
                                     ELSE "reading",
                              !.txn = table]]
    /\ UNCHANGED <<DB, table, inst, encs, saved, nextUuid, now, last, cryptex>>

\* `table.insert(key.as_str(), value.as_str())?` inside the transaction
StoreInsert(t) ==
    /\ calls[t].pc = "writing"
    /\ calls' = [calls EXCEPT ![t] =
                    [@ EXCEPT !.pc = "inserted",
                              !.txn = Put(@, Uuid_to_string(calls[t].arg.id),
                                          serde_to_string(calls[t].arg))]]
    /\ UNCHANGED <<DB, table, inst, encs, saved, nextUuid, now, last, cryptex>>

\* `write_txn.commit()?; Ok(())`
StoreCommit(t) ==
    /\ calls[t].pc = "inserted"
    /\ table' = calls[t].txn
    /\ calls' = [u \in Threads |->
                    IF u = t
                    THEN [calls[t] EXCEPT !.pc = "done", !.res = Ok(<< >>)]
                    ELSE IF calls[u].op = "get_by_id" /\ calls[u].pc # "done"
                         THEN [calls[u] EXCEPT
                                 !.seen = @ \cup {Stored(calls[t].txn, calls[u].arg)}]
                         ELSE calls[u]]
    /\ UNCHANGED <<DB, inst, encs, saved, nextUuid, now, last, cryptex>>

\* `table.get(key.as_str())?` and the match on it, inside the read transaction
StoreRead(t) ==
    /\ calls[t].pc = "reading"
    /\ calls' = [calls EXCEPT ![t] =
                    [@ EXCEPT !.pc = "done", !.res = Ok(Stored(calls[t].txn, calls[t].arg))]]
    /\ UNCHANGED <<DB, table, inst, encs, saved, nextUuid, now, last, cryptex>>

NextStore ==
    \/ Tick
    \/ \E t \in Threads, k \in DOMAIN inst : StoreSave(t, k)
    \/ \E t \in Threads, k \in DOMAIN inst : StoreGet(t, inst[k].session_id)
    \/ \E t \in Threads : StoreGetDb(t)
    \/ \E t \in Threads : StoreBegin(t)
    \/ \E t \in Threads : StoreInsert(t)
    \/ \E t \in Threads : StoreCommit(t)
    \/ \E t \in Threads : StoreRead(t)

SpecStore == InitStore /\ [][NextStore]_vars

\* the gets that have returned, in cs, returned what the store held under
\* their id at some time during the call, and a record returned is a whole
\* record of the session asked for
GetsConsistent(cs) ==
    \A t \in Threads :
        (cs[t].op = "get_by_id" /\ cs[t].pc = "done" /\ cs[t].res.ok) =>
            /\ cs[t].res.value \in cs[t].seen
            /\ cs[t].res.value # None =>
                  LET got == cs[t].res.value[1]
                  IN  /\ got.id = cs[t].arg
                      /\ \E k \in DOMAIN inst :
                            /\ got.id = inst[k].session_id
                            /\ got.key_material = inst[k].key_material
                      /\ got.algorithm = "BB84-Hybrid"
                      /\ got.expires_at = Some(got.created_at + 24)

\* C22: a step that changes the sessions table is the commit of one save
\* and changes the record of that save's id only, whatever other saves are
\* in progress; and a get_by_id that started after a save of its id had
\* returned Ok returns a whole record of that id: the one of the last save
\* that returned before the get started, or of a save that returned while
\* the get was running.
C22_StoreIsolation ==
    [][ /\ table' # table =>
              \E t \in Threads :
                  /\ calls[t].pc = "inserted"
                  /\ calls'[t].pc = "done"
                  /\ table' = Put(table, Uuid_to_string(calls[t].arg.id),
                                  serde_to_string(calls[t].arg))
        /\ GetsConsistent(calls')
        /\ \A t \in Threads :
              (calls'[t].op = "get_by_id" /\ calls'[t].pc = "done"
                 /\ None \notin calls'[t].seen) =>
                    calls'[t].res.ok /\ calls'[t].res.value # None ]_vars

\* both sessions are stored, and a get that started when the store held one
\* record of its session returned the record another save committed while
\* the get was running
C22_Witness ==
    /\ DOMAIN table = {Uuid_to_string(1), Uuid_to_string(2)}
    /\ \E t \in Threads :
          /\ calls[t].op = "get_by_id"
          /\ calls[t].pc = "done"
          /\ None \notin calls[t].seen
          /\ Cardinality(calls[t].seen) = 2
          /\ calls[t].res.value # None
          /\ calls[t].res.value[1].created_at = 1

----------------------------------------------------------------------------
(* Key sizes over the whole range of usize.  A size is four 16-bit limbs,  *)
(* lowest first, so that the products the generator forms are computed at  *)
(* the width the machine has (64 bits).  The build either checks its       *)
(* arithmetic (a debug build: overflow panics) or does not (a release     *)
(* build: the product wraps).  A vector longer than isize::MAX bytes       *)
(* cannot be made (Vec panics with "capacity overflow"); whether a large   *)
(* one below that limit can be made is the allocator's answer, which the   *)
(* model takes either way; the sizes the model simulates always can.       *)

Limb == 2 ^ 16
usize(n) == <<n % Limb, (n \div Limb) % Limb, 0, 0>>
\* 2^k as a usize, k < 64
Pow2(k) == [i \in 1..4 |-> IF i = (k \div 16) + 1 THEN 2 ^ (k % 16) ELSE 0]
usize_MAX == <<Limb - 1, Limb - 1, Limb - 1, Limb - 1>>

RECURSIVE MulLimbs(_, _, _)
MulLimbs(x, m, carry) ==
    IF x = << >> THEN [value |-> << >>, carry |-> carry]
    ELSE LET p == Head(x) * m + carry
             r == MulLimbs(Tail(x), m, p \div Limb)
         IN  [value |-> <<p % Limb>> \o r.value, carry |-> r.carry]

\* x * m on usize: the wrapped product, and whether the true product fits
usize_mul(x, m) ==
    LET r == MulLimbs(x, m, 0)
    IN  [value |-> r.value, overflow |-> r.carry > 0]

\* the sizes whose keys the model computes bit by bit
Simulated(x) == \E n \in KeySizes : x = usize(n)

\* a panic, or an abort on a failed allocation: the call returns nothing
Panic(msg) == [ok |-> FALSE, err |-> msg, value |-> << >>, ended |-> "panic"]

\* growing a Vec to len elements of elem bytes each
Vec(len, elem, large_alloc) ==
    LET bytes == usize_mul(len, elem)
    IN  IF Simulated(len) THEN "ok"
        ELSE IF bytes.overflow \/ bytes.value[4] >= Limb \div 2 THEN "capacity overflow"
        ELSE IF large_alloc THEN "ok"
        ELSE "memory allocation failed"

\* generate_bb84_key(key_size) for a key_size anywhere in usize
generate_bb84_key_sized(key_size, overflow_checks, large_alloc, seed) ==
    LET num_bits    == usize_mul(key_size, Oversample)
        target_bits == usize_mul(key_size, 8)
        qubits      == Vec(num_bits.value, 2, large_alloc)
        key_bytes   == Vec(key_size, 1, large_alloc)
        w1 == IF num_bits.overflow THEN {"key_size * 16"} ELSE {}
        w2 == IF target_bits.overflow THEN {"target_size * 8"} ELSE {}
    IN  IF num_bits.overflow /\ overflow_checks
        THEN [res |-> Panic("attempt to multiply with overflow"), wrapped |-> w1]
        ELSE IF qubits # "ok"
        THEN [res |-> Panic(qubits), wrapped |-> w1]
        ELSE IF target_bits.overflow /\ overflow_checks
        THEN [res |-> Panic("attempt to multiply with overflow"), wrapped |-> w1 \cup w2]
        ELSE IF key_bytes # "ok"
        THEN [res |-> Panic(key_bytes), wrapped |-> w1 \cup w2]
        ELSE [res |-> IF Simulated(key_size)
                      THEN generate_bb84_key(key_size[1], seed)
                      ELSE Ok(<<"bytes", key_size>>),
              wrapped |-> w1 \cup w2]

\* generate_hybrid_key(key_size) for a key_size anywhere in usize
generate_hybrid_key_sized(key_size, overflow_checks, large_alloc, seed) ==
    LET qkd_key == generate_bb84_key_sized(key_size, overflow_checks, large_alloc, seed)
        classical_entropy == Vec(key_size, 1, large_alloc)
    IN  IF ~qkd_key.res.ok THEN qkd_key
        ELSE IF classical_entropy # "ok"
        THEN [res |-> Panic(classical_entropy), wrapped |-> qkd_key.wrapped]
        ELSE [res |-> IF Simulated(key_size)
                      THEN generate_hybrid_key(key_size[1], seed)
                      ELSE Ok(<<"bytes", usize(32)>>),
              wrapped |-> qkd_key.wrapped]

\* new_session(key_size) for a key_size anywhere in usize
new_session_sized(key_size, overflow_checks, large_alloc, seed) ==
    LET key_material == generate_hybrid_key_sized(key_size, overflow_checks,
                                                  large_alloc, seed)
    IN  IF ~key_material.res.ok THEN key_material
        ELSE [res |-> Ok([session_id |-> 1, key_material |-> key_material.res.value]),
              wrapped |-> key_material.wrapped]

\* the sizes a caller passes: the simulated ones, and large ones
CallerSizes ==
    {usize(n) : n \in KeySizes}
      \cup {Pow2(40), [usize_MAX EXCEPT ![4] = (Limb \div 16) - 1], Pow2(60),
            [Pow2(60) EXCEPT ![1] = 1], Pow2(61), Pow2(63), usize_MAX}

\* what a call with a size left in `last`; wrapped names the products whose
\* true value did not fit in usize
SizedCall(op, key_size, overflow_checks, large_alloc, seed, r) ==
    [op |-> op, inst |-> 0,
     arg |-> [key_size |-> key_size, overflow_checks |-> overflow_checks,
              large_alloc |-> large_alloc, seed |-> seed],
     res |-> r.res, db |-> DB, wrapped |-> r.wrapped]

SizedBB84Key(key_size, overflow_checks, large_alloc, seed) ==
    /\ last.op = "start"
    /\ last' = SizedCall("generate_bb84_key", key_size, overflow_checks, large_alloc, seed,
                   generate_bb84_key_sized(key_size, overflow_checks, large_alloc, seed))
    /\ UNCHANGED <<DB, table, inst, encs, saved, nextUuid, now, cryptex, calls>>

SizedHybridKey(key_size, overflow_checks, large_alloc, seed) ==
    /\ last.op = "start"
    /\ last' = SizedCall("generate_hybrid_key", key_size, overflow_checks, large_alloc, seed,
                   generate_hybrid_key_sized(key_size, overflow_checks, large_alloc, seed))
    /\ UNCHANGED <<DB, table, inst, encs, saved, nextUuid, now, cryptex, calls>>

SizedNewSession(key_size, overflow_checks, large_alloc, seed) ==
    /\ last.op = "start"
    /\ last' = SizedCall("new_session", key_size, overflow_checks, large_alloc, seed,
                   new_session_sized(key_size, overflow_checks, large_alloc, seed))
    /\ UNCHANGED <<DB, table, inst, encs, saved, nextUuid, now, cryptex, calls>>

NextSizes ==
    \/ \E n \in CallerSizes, c \in BOOLEAN, a \in BOOLEAN, s \in Seeds :
          SizedBB84Key(n, c, a, s)
    \/ \E n \in CallerSizes, c \in BOOLEAN, a \in BOOLEAN, s \in Seeds :
          SizedHybridKey(n, c, a, s)
    \/ \E n \in CallerSizes, c \in BOOLEAN, a \in BOOLEAN, s \in Seeds :
          SizedNewSession(n, c, a, s)

SpecSizes == Init /\ [][NextSizes]_vars

\* C23 (as claimed): whatever key_size generate_bb84_key, generate_hybrid_key
\* or new_session is given, the call returns (a key, a session or an error)
\* and neither key_size * 16 nor target_size * 8 leaves the range of usize.
C23_AlwaysReturnsAsClaimed ==
    last.op \in {"generate_bb84_key", "generate_hybrid_key", "new_session"} =>
        /\ "ended" \notin DOMAIN last.res
        /\ last.wrapped = {}

----------------------------------------------------------------------------
(* db/cryptex.rs and the cryptex table of db/redb_client.rs.  The table is *)
(* keyed by the entry's uuid string and iterated in key order; a new       *)
(* entry's random uuid falls anywhere among the keys already there.        *)

MaxEntries == 3
EntryIds == 1..MaxEntries
FunctionNames == {"scan", "probe"}
BrandingNames == {"prs_scan", "prs_probe"}

\* CryptexEntry::new
CryptexEntry_new(function_name, branding_name, id, t) ==
    [id            |-> id,
     function_name |-> function_name,
     branding_name |-> branding_name,
     pseudo_code   |-> "",
     rust_impl     |-> None,
     python_impl   |-> None,
     category      |-> "Exploit",
     created_at    |-> t,
     updated_at    |-> t]

\* serde_json::to_string(&CryptexEntry)
entry_to_string(entry) ==
    << <<"id", Uuid_to_string(entry.id)>>,
       <<"function_name", entry.function_name>>,
       <<"branding_name", entry.branding_name>>,
       <<"pseudo_code", entry.pseudo_code>>,
       <<"rust_impl", entry.rust_impl>>,
       <<"python_impl", entry.python_impl>>,
       <<"category", entry.category>>,
       <<"created_at", entry.created_at>>,
       <<"updated_at", entry.updated_at>> >>

\* serde_json::from_str::<CryptexEntry>
entry_from_str(json) ==
    [id            |-> Uuid_parse(Member(json, "id")),
     function_name |-> Member(json, "function_name"),
     branding_name |-> Member(json, "branding_name"),
     pseudo_code   |-> Member(json, "pseudo_code"),
     rust_impl     |-> Member(json, "rust_impl"),
     python_impl   |-> Member(json, "python_impl"),
     category      |-> Member(json, "category"),
     created_at    |-> Member(json, "created_at"),
     updated_at    |-> Member(json, "updated_at")]

\* cryptex::insert: the result and the table after it
cryptex_insert(db, tbl, entry) ==
    IF ~get_db(db).ok THEN [res |-> get_db(db), table |-> tbl]
    ELSE [res |-> Ok(<< >>),
          table |-> Put(tbl, Uuid_to_string(entry.id), entry_to_string(entry))]

\* `for item in table.iter()? { ... if <test> { return Ok(Some(entry)) } } Ok(None)`:
\* the entry under the lowest key among those whose member has the value
FirstEntry(tbl, member, name) ==
    LET hits == {id \in EntryIds : /\ Uuid_to_string(id) \in DOMAIN tbl
                                   /\ entry_from_str(tbl[Uuid_to_string(id)])[member] = name}
    IN  IF hits = {} THEN None
        ELSE LET first == CHOOSE id \in hits : \A other \in hits : id <= other
             IN  Some(entry_from_str(tbl[Uuid_to_string(first)]))

\* cryptex::get_by_function_name
get_by_function_name(db, tbl, function_name) ==
    IF ~get_db(db).ok THEN get_db(db)
    ELSE Ok(FirstEntry(tbl, "function_name", function_name))

\* cryptex::get_by_branding_name
get_by_branding_name(db, tbl, branding_name) ==
    IF ~get_db(db).ok THEN get_db(db)
    ELSE Ok(FirstEntry(tbl, "branding_name", branding_name))

\* cryptex::delete: the result and the table after it
cryptex_delete(db, tbl, id) ==
    IF ~get_db(db).ok THEN [res |-> get_db(db), table |-> tbl]
    ELSE [res |-> Ok(<< >>),
          table |-> [k \in DOMAIN tbl \ {Uuid_to_string(id)} |-> tbl[k]]]

\* CryptexDictionary::add_entry(function_name, branding_name, ..); id is the
\* uuid that CryptexEntry::new draws
AddEntry(function_name, branding_name, id) ==
    /\ Uuid_to_string(id) \notin DOMAIN cryptex
    /\ LET entry == CryptexEntry_new(function_name, branding_name, id, now)
           r     == cryptex_insert(DB, cryptex, entry)
       IN  /\ cryptex' = r.table
           /\ last' = Call("add_entry", 0, <<function_name, branding_name>>,
                           IF r.res.ok THEN Ok(entry) ELSE r.res)
    /\ UNCHANGED <<DB, table, inst, encs, saved, nextUuid, now, calls>>

\* CryptexDictionary::lookup_function
LookupFunction(function_name) ==
    /\ last' = Call("lookup_function", 0, function_name,
                    get_by_function_name(DB, cryptex, function_name))
    /\ UNCHANGED <<DB, table, inst, encs, saved, nextUuid, now, cryptex, calls>>

\* CryptexDictionary::lookup_branding
LookupBranding(branding_name) ==
    /\ last' = Call("lookup_branding", 0, branding_name,
                    get_by_branding_name(DB, cryptex, branding_name))
    /\ UNCHANGED <<DB, table, inst, encs, saved, nextUuid, now, cryptex, calls>>

\* CryptexDictionary::delete(&id)
DeleteEntry(id) ==
    /\ LET r == cryptex_delete(DB, cryptex, id)
       IN  /\ cryptex' = r.table
           /\ last' = Call("delete", 0, id, r.res)
    /\ UNCHANGED <<DB, table, inst, encs, saved, nextUuid, now, calls>>

NextCryptex ==
    \/ InitDatabase
    \/ \E f \in FunctionNames, b \in BrandingNames, id \in EntryIds : AddEntry(f, b, id)
    \/ \E f \in FunctionNames : LookupFunction(f)
    \/ \E b \in BrandingNames : LookupBranding(b)
    \/ \E id \in EntryIds : DeleteEntry(id)

SpecCryptex == Init /\ [][NextCryptex]_vars

\* C24 (as claimed): once add_entry(f, b, ..) has returned Ok, lookup_function(f)
\* returns an entry with branding name b and lookup_branding(b) returns an
\* entry with function name f, whatever else the table holds.
C24_AddThenLookupAsClaimed ==
    (last.op = "add_entry" /\ last.res.ok) =>
        LET by_function == get_by_function_name(DB, cryptex, last.arg[1])
            by_branding == get_by_branding_name(DB, cryptex, last.arg[2])
        IN  /\ by_function.ok /\ by_function.value # None
            /\ by_function.value[1].branding_name = last.arg[2]
            /\ by_branding.ok /\ by_branding.value # None
            /\ by_branding.value[1].function_name = last.arg[1]

\* C25 (as claimed): once delete(id) has returned Ok for an entry that
\* add_entry created with function name f, lookup_function(f) returns no
\* entry, whatever add_entry and delete calls came before.
C25_DeleteThenLookupAsClaimed ==
    [][ \A id \in EntryIds :
          (/\ last'.op = "delete" /\ last'.arg = id /\ last'.res.ok
           /\ cryptex' # cryptex
           /\ Uuid_to_string(id) \in DOMAIN cryptex) =>
              get_by_function_name(DB', cryptex',
                  entry_from_str(cryptex[Uuid_to_string(id)]).function_name)
                = Ok(None) ]_vars

----------------------------------------------------------------------------
\* C26: generate_bb84_key(n) prepares 16*n qubits, with as many bases, the
\* i-th base being the basis of the i-th qubit; measures those qubits; sifts
\* Alice's bases against Bob's bases and values; and returns the finalized
\* sifted key, which has n bytes.
C26_Stages ==
    last.op = "generate_bb84_key" =>
        LET n     == last.arg[1]
            seed  == last.arg[2]
            alice == alice_prepare(16 * n, seed)
            bob   == bob_measure(alice.bits, seed)
            sifted_key == sift_key(alice.bases, bob.bases, bob.values)
        IN  /\ Len(alice.bits) = 16 * n
            /\ Len(alice.bases) = 16 * n
            /\ \A i \in 1..(16 * n) : alice.bases[i] = alice.bits[i].basis
            /\ Len(bob.values) = 16 * n
            /\ last.res.ok
            /\ last.res.value = finalize_key(sifted_key, n)
            /\ Len(last.res.value) = n

\* a 32-byte key came out of 512 qubits, with a byte that is not padding
C26_Witness ==
    /\ last.op = "generate_bb84_key"
    /\ last.arg[1] = 32
    /\ Len(last.res.value) = 32
    /\ last.res.value[32] # 0

\* bit k of byte x
BitOf(x, k) == (x \div (2 ^ k)) % 2
\* the byte whose every bit is set where the bits of a and b differ
ExclusiveOr(a, b) ==
    CHOOSE c \in 0..255 : \A k \in 0..7 : BitOf(c, k) = (BitOf(a, k) + BitOf(b, k)) % 2

\* C27: generate_hybrid_key(n) digests a buffer of n bytes, byte i being
\* simulated_key[i] XOR classical_entropy[i] with both inputs n bytes long,
\* and returns the first min(n, 32) bytes of the 32-byte digest.
C27_HybridKey ==
    last.op = "generate_hybrid_key" =>
        LET n      == last.arg[1]
            seed   == last.arg[2]
            simulated_key     == generate_bb84_key(n, seed).value
            classical_entropy == [i \in 1..n |-> EntropyDraw(seed, i)]
            buffer == [i \in 1..n |-> ExclusiveOr(simulated_key[i], classical_entropy[i])]
            digest == MultiHasher_hash("BLAKE3", buffer).value
        IN  /\ Len(simulated_key) = n
            /\ Len(digest) = 32
            /\ last.res.ok
            /\ last.res.value = SubSeq(digest, 1, IF n < 32 THEN n ELSE 32)

\* a size above 32 gave a 32-byte key: the whole digest
C27_Witness ==
    /\ last.op = "generate_hybrid_key"
    /\ last.arg[1] = 33
    /\ last.res.ok
    /\ Len(last.res.value) = 32

----------------------------------------------------------------------------
(* The two callers that encrypt and store: handle_qkd_command's Encrypt    *)
(* arm (main.rs) and MCPHandlers::handle_qkd_encrypt (mcp/handlers.rs),    *)
(* statement by statement.  `out` is what the caller has handed to its     *)
(* user so far: lines printed, or the JSON value returned.                 *)

Callers == {"cli", "mcp"}

NoRun == [pc |-> "idle", qkd |-> None, ciphertext |-> << >>, out |-> << >>,
          res |-> Ok(<< >>)]

InitCallers ==
    /\ DB = FALSE
    /\ table = << >>
    /\ inst = << >>
    /\ encs = {}
    /\ saved = {}
    /\ nextUuid = 0
    /\ now = 0
    /\ cryptex = << >>
    /\ last = Call("start", 0, << >>, Ok(<< >>))
    /\ calls = [c \in Callers |-> NoRun]

\* hex::encode: two digits for a byte, the high one first
hex_encode(bytes) ==
    [i \in 1..(2 * Len(bytes)) |->
        IF i % 2 = 1 THEN bytes[(i + 1) \div 2] \div 16 ELSE bytes[i \div 2] % 16]

\* `params.key_size.unwrap_or(32)`
unwrap_or(option, default) == IF option = None THEN default ELSE option[1]

\* the key_size member of a qkd_encrypt request
RequestKeySizes == {None, Some(16), Some(33)}

\* `let qkd = QKDEncryption::new_session(32)?;` in the command,
\* `new_session(params.key_size.unwrap_or(32))?` in the handler
CallerNewSession(c, key_size) ==
    /\ calls[c].pc \in {"idle", "done"}
    /\ nextUuid < MaxInst
    /\ c = "cli" => key_size = None
    /\ LET r == new_session(unwrap_or(key_size, 32), 1, nextUuid + 1)
       IN  calls' = [calls EXCEPT ![c] =
                       IF r.ok THEN [NoRun EXCEPT !.pc = "session", !.qkd = Some(r.value)]
                       ELSE [NoRun EXCEPT !.pc = "done", !.res = r]]
    /\ nextUuid' = nextUuid + 1
    /\ UNCHANGED <<DB, table, inst, encs, saved, now, last, cryptex>>

\* `let ciphertext = qkd.encrypt(data.as_bytes())?;`
CallerEncrypt(c, data) ==
    /\ calls[c].pc = "session"
    /\ LET r == encrypt(calls[c].qkd[1], data, NonceOf(calls[c].qkd[1].session_id))
       IN  calls' = [calls EXCEPT ![c] =
                       IF r.ok THEN [@ EXCEPT !.pc = "encrypted", !.ciphertext = r.value]
                       ELSE [@ EXCEPT !.pc = "done", !.res = r]]
    /\ UNCHANGED <<DB, table, inst, encs, saved, nextUuid, now, last, cryptex>>

\* main.rs: `println!("Encrypted (hex): {}", ciphertext_hex);`
CliPrintCiphertext ==
    /\ calls["cli"].pc = "encrypted"
    /\ calls' = [calls EXCEPT !["cli"] =
                    [@ EXCEPT !.pc = "printed_ciphertext",
                              !.out = Append(@, <<"ciphertext", hex_encode(calls["cli"].ciphertext)>>)]]
    /\ UNCHANGED <<DB, table, inst, encs, saved, nextUuid, now, last, cryptex>>

\* main.rs: `println!("Session ID: {}", qkd.session_id);`
CliPrintSessionId ==
    /\ calls["cli"].pc = "printed_ciphertext"
    /\ calls' = [calls EXCEPT !["cli"] =
                    [@ EXCEPT !.pc = "printed_id",
                              !.out = Append(@, <<"session_id",
                                                  Uuid_to_string(calls["cli"].qkd[1].session_id)>>)]]
    /\ UNCHANGED <<DB, table, inst, encs, saved, nextUuid, now, last, cryptex>>

\* `qkd.save_session()?;`: after the two lines in the command, straight after
\* the encryption in the handler
CallerSaveSession(c) ==
    /\ calls[c].pc = IF c = "cli" THEN "printed_id" ELSE "encrypted"
    /\ LET r == save_session(calls[c].qkd[1], DB, table, now, now)
       IN  /\ table' = r.table
           /\ calls' = [calls EXCEPT ![c] =
                           IF r.res.ok THEN [@ EXCEPT !.pc = "saved"]
                           ELSE [@ EXCEPT !.pc = "done", !.res = r.res]]
    /\ UNCHANGED <<DB, inst, encs, saved, nextUuid, now, last, cryptex>>

\* the command's last line, "Session saved to database", and the handler's
\* `Ok(json!({ "ciphertext": ciphertext_hex, "session_id": qkd.session_id, .. }))`
CallerReturn(c) ==
    /\ calls[c].pc = "saved"
    /\ calls' = [calls EXCEPT ![c] =
                    [@ EXCEPT !.pc = "done",
                              !.out = IF c = "cli"
                                      THEN Append(@, <<"saved", << >> >>)
                                      ELSE <<<<"ciphertext", hex_encode(calls[c].ciphertext)>>,
                                             <<"session_id",
                                               Uuid_to_string(calls[c].qkd[1].session_id)>>>>]]
    /\ UNCHANGED <<DB, table, inst, encs, saved, nextUuid, now, last, cryptex>>

NextCallers ==
    \/ InitDatabase
    \/ CloseDatabase
    \/ \E c \in Callers, n \in RequestKeySizes : CallerNewSession(c, n)
    \/ \E c \in Callers, data \in Plaintexts : CallerEncrypt(c, data)
    \/ CliPrintCiphertext
    \/ CliPrintSessionId
    \/ \E c \in Callers : CallerSaveSession(c)
    \/ \E c \in Callers : CallerReturn(c)

SpecCallers == InitCallers /\ [][NextCallers]_vars

\* C28 (as claimed): whenever one of the two callers has handed out a
\* ciphertext, the sessions table holds a record with that session's id
\* and the key material the ciphertext was made with.
C28_StoredBeforeEmittedAsClaimed ==
    \A c \in Callers :
        (\E i \in DOMAIN calls[c].out : calls[c].out[i][1] = "ciphertext") =>
            LET qkd == calls[c].qkd[1]
            IN  /\ Uuid_to_string(qkd.session_id) \in DOMAIN table
                /\ serde_from_str(table[Uuid_to_string(qkd.session_id)]).key_material
                      = qkd.key_material

----------------------------------------------------------------------------
\* C29: the handle changes only in init_database and close_database, which
\* run no session operation; the sessions table changes only in a
\* save_session that ran with the handle set; and a save_session or
\* load_session that runs with the handle unset returns "Database not
\* initialized" and leaves the table and the sessions in memory as they were.
C29_Handle ==
    [][ /\ DB' # DB => (last' = last /\ table' = table /\ inst' = inst)
        /\ table' # table => (DB /\ last'.op = "save_session" /\ last'.res.ok)
        /\ (last' # last /\ last'.op \in {"save_session", "load_session"}) =>
              /\ last'.res.ok => DB
              /\ ~DB => /\ ~last'.res.ok
                        /\ last'.res.err = "Database not initialized"
                        /\ table' = table
                        /\ inst' = inst ]_vars

\* a save was refused after close_database, with a record in the table
C29_Witness ==
    /\ last.op = "save_session"
    /\ ~last.db
    /\ last.res.err = "Database not initialized"
    /\ table # << >>
    /\ ~DB

----------------------------------------------------------------------------
\* C30: decrypt of an envelope that encrypt returned on a session, run on a
\* session whose 32-byte cipher key is another one, returns "Decryption
\* failed"; a decrypt that returns a plaintext for the envelope ran on a
\* session with the key material of the session that made it.
C30_OtherKey ==
    last.op = "decrypt" =>
        \A e \in encs :
            e.env = last.arg =>
                /\ KeyOf(inst[last.inst].key_material) # KeyOf(inst[e.inst].key_material)
                      => (~last.res.ok /\ last.res.err = "Decryption failed")
                /\ last.res.ok
                      => inst[last.inst].key_material = inst[e.inst].key_material

\* a session with another key was given an envelope and refused it
C30_Witness ==
    /\ last.op = "decrypt"
    /\ \E e \in encs :
          /\ e.env = last.arg
          /\ e.inst # last.inst
          /\ KeyOf(inst[last.inst].key_material) # KeyOf(inst[e.inst].key_material)
          /\ last.res.err = "Decryption failed"

====
